---- MODULE Spec2Model ----
(***************************************************************************)
(* A model of flux's overflow-aware integer arithmetic                     *)
(* (include/flux/core/numeric.hpp): the wrapping layer, the overflow       *)
(* detecting layer (builtin path and portable fallback) and the policy     *)
(* checked layer.                                                          *)
(*                                                                         *)
(* The C++ integer types are scaled down so that every operand pair can be *)
(* enumerated: "signed char" has CharBits bits, "short" ShortBits bits and *)
(* "int" IntBits bits.  The scaling keeps the two facts about the real     *)
(* 8/16/32 bit types that the arithmetic depends on: int holds the square  *)
(* of the largest unsigned char, and does not hold the square of the       *)
(* largest unsigned short.  Operands narrower than int are promoted to int *)
(* before every built-in arithmetic operator, as in C++.                   *)
(***************************************************************************)
EXTENDS Integers, Sequences, FiniteSets, TLC

VARIABLES cfg, pc, call, ret, outcome, ub, hook, res, i

vars == <<cfg, pc, call, ret, outcome, ub, hook, res, i>>

----------------------------------------------------------------------------
(* Widths of the integer types *)

\* width of int, the type every narrower operand is promoted to
IntBits == 5

\* width of the unsigned type U of checked_pow's exponent
ExpBits == 2

\* widths of signed char and short, the two types narrower than int
CharBits == 2
ShortBits == 3

----------------------------------------------------------------------------
(* Integer types: ranges, conversions, promotion *)

SignedT(bits) == [signed |-> TRUE, bits |-> bits]
UnsignedT(bits) == [signed |-> FALSE, bits |-> bits]

Widths == {CharBits, ShortBits, IntBits}
SignedTypes == {SignedT(w) : w \in Widths}
UnsignedTypes == {UnsignedT(w) : w \in Widths}
Types == SignedTypes \cup UnsignedTypes

IntT == SignedT(IntBits)
ExpT == UnsignedT(ExpBits)

\* std::numeric_limits<T>::lowest() and ::max()
Lowest(T) == IF T.signed THEN -(2 ^ (T.bits - 1)) ELSE 0
Highest(T) == IF T.signed THEN 2 ^ (T.bits - 1) - 1 ELSE 2 ^ T.bits - 1
Values(T) == Lowest(T) .. Highest(T)

\* static_cast<T>(x): the value of T congruent to x modulo 2^bits
Cast(T, x) ==
    LET m == x % (2 ^ T.bits)
    IN  IF T.signed /\ m >= 2 ^ (T.bits - 1) THEN m - 2 ^ T.bits ELSE m

\* std::make_unsigned_t<T>
make_unsigned(T) == UnsignedT(T.bits)

\* integral promotion: a type narrower than int becomes int
Promote(T) == IF T.bits < IntBits THEN IntT ELSE T

\* the result of a built-in + - * / % whose exact value is x, in the
\* promoted type P: unsigned arithmetic is modular, signed arithmetic is
\* undefined when x is not representable (v is then what two's-complement
\* hardware leaves)
Arith(P, x) ==
    [ub |-> P.signed /\ x \notin Values(P), v |-> Cast(P, x)]

Abs(x) == IF x < 0 THEN -x ELSE x

\* C++ integer division truncates towards zero
TruncDiv(a, b) ==
    LET q == Abs(a) \div Abs(b)
    IN  IF (a < 0) = (b < 0) THEN q ELSE -q

\* the remainder has the sign of the dividend
TruncMod(a, b) == a - b * TruncDiv(a, b)

----------------------------------------------------------------------------
(* Wrapping layer *)

wrapping_add(T, lhs, rhs) ==
    LET U == make_unsigned(T)
        r == Arith(Promote(U), Cast(U, lhs) + Cast(U, rhs))
    IN  [ub |-> r.ub, v |-> Cast(T, r.v)]

wrapping_sub(T, lhs, rhs) ==
    LET U == make_unsigned(T)
        r == Arith(Promote(U), Cast(U, lhs) - Cast(U, rhs))
    IN  [ub |-> r.ub, v |-> Cast(T, r.v)]

wrapping_mul(T, lhs, rhs) ==
    LET U == make_unsigned(T)
        r == Arith(Promote(U), Cast(U, lhs) * Cast(U, rhs))
    IN  [ub |-> r.ub, v |-> Cast(T, r.v)]

----------------------------------------------------------------------------
(* Overflow-detecting layer *)

\* __builtin_add_overflow and friends: the exact result x is stored
\* converted to T, and the return value tells whether it did not fit
builtin_overflow(T, x) ==
    [ub |-> FALSE, value |-> Cast(T, x), overflowed |-> x \notin Values(T)]

\* overflowing_add with the fallback's second sign comparison inverted
overflowing_add_samesign(builtin, T, lhs, rhs) ==
    IF builtin
    THEN builtin_overflow(T, lhs + rhs)
    ELSE LET w == wrapping_add(T, lhs, rhs)
             value == w.v
         IN  [ub |-> w.ub, value |-> value,
              overflowed |-> ((lhs < 0) = (rhs < 0)) /\ ((lhs < 0) = (value < 0))]

overflowing_add(builtin, T, lhs, rhs) ==
    IF builtin
    THEN builtin_overflow(T, lhs + rhs)
    ELSE LET w == wrapping_add(T, lhs, rhs)
             value == w.v
         IN  [ub |-> w.ub, value |-> value,
              overflowed |-> ((lhs < 0) = (rhs < 0)) /\ ((lhs < 0) # (value < 0))]

\* overflowing_sub with the fallback testing lhs > 0 instead of lhs >= 0
overflowing_sub_strict(builtin, T, lhs, rhs) ==
    IF builtin
    THEN builtin_overflow(T, lhs - rhs)
    ELSE LET w == wrapping_sub(T, lhs, rhs)
             value == w.v
         IN  [ub |-> w.ub, value |-> value,
              overflowed |-> (lhs > 0 /\ rhs < 0 /\ value < 0)
                             \/ (lhs < 0 /\ rhs > 0 /\ value > 0)]

overflowing_sub(builtin, T, lhs, rhs) ==
    IF builtin
    THEN builtin_overflow(T, lhs - rhs)
    ELSE LET w == wrapping_sub(T, lhs, rhs)
             value == w.v
         IN  [ub |-> w.ub, value |-> value,
              overflowed |-> (lhs >= 0 /\ rhs < 0 /\ value < 0)
                             \/ (lhs < 0 /\ rhs > 0 /\ value > 0)]

overflowing_mul(builtin, T, lhs, rhs) ==
    IF builtin
    THEN builtin_overflow(T, lhs * rhs)
    ELSE LET w == wrapping_mul(T, lhs, rhs)
             value == w.v
         IN  IF lhs = 0
             THEN [ub |-> w.ub, value |-> value, overflowed |-> FALSE]
             ELSE LET q == Arith(Promote(T), TruncDiv(value, lhs))
                  IN  [ub |-> w.ub \/ q.ub, value |-> value,
                       overflowed |-> q.v # rhs]

----------------------------------------------------------------------------
(* The calls *)

Policies == {"ignore", "wrap", "fail"}
DivPolicies == {"ignore", "fail"}

\* a build: detail::use_builtin_overflow_ops, config::on_overflow and
\* config::on_divide_by_zero are compile-time constants
Configs ==
    [builtin : BOOLEAN, on_overflow : Policies, on_divide_by_zero : DivPolicies]

NoCall == [fn |-> "none"]

Call(fn, T, lhs, rhs, ce) ==
    [fn |-> fn, T |-> T, lhs |-> lhs, rhs |-> rhs, ce |-> ce]

\* the call sites of the checked operations: the value of the defaulted
\* argument loc = std::source_location::current()
Locs == {"site_a", "site_b"}

\* a call of a checked operation from the call site loc
CallAt(fn, T, lhs, rhs, ce, loc) ==
    [fn |-> fn, T |-> T, lhs |-> lhs, rhs |-> rhs, ce |-> ce, loc |-> loc]

Init ==
    /\ cfg \in Configs
    /\ pc = "idle"
    /\ call = NoCall
    /\ ret = <<>>
    /\ outcome = "none"
    /\ ub = FALSE
    /\ hook = <<>>
    /\ res = 0
    /\ i = 0

\* a call with operands of a type that does not satisfy
\* std::signed_integral has no viable overload
Rejected(c) ==
    /\ call' = c
    /\ pc' = "done"
    /\ outcome' = "rejected"
    /\ ret' = <<>>
    /\ ub' = FALSE
    /\ UNCHANGED <<cfg, hook, res, i>>

\* the end of a call that evaluated r without reporting a failure: a
\* build either traps where the behaviour is undefined or carries on
\* with what the hardware computed
Finish(c, r, v) ==
    /\ call' = c
    /\ pc' = "done"
    /\ ub' = r.ub
    /\ \/ /\ outcome' = "returned"
          /\ ret' = <<v>>
       \/ /\ r.ub
          /\ outcome' = "trapped"
          /\ ret' = <<>>
    /\ UNCHANGED <<cfg, hook, res, i>>

WrappingCall(fn, T, lhs, rhs) ==
    LET r == CASE fn = "wrapping_add" -> wrapping_add(T, lhs, rhs)
               [] fn = "wrapping_sub" -> wrapping_sub(T, lhs, rhs)
               [] fn = "wrapping_mul" -> wrapping_mul(T, lhs, rhs)
    IN  IF T.signed
        THEN Finish(Call(fn, T, lhs, rhs, FALSE), r, r.v)
        ELSE Rejected(Call(fn, T, lhs, rhs, FALSE))

WrappingAdd ==
    /\ pc = "idle"
    /\ \E T \in Types : \E lhs \in Values(T), rhs \in Values(T) :
          WrappingCall("wrapping_add", T, lhs, rhs)

WrappingSub ==
    /\ pc = "idle"
    /\ \E T \in Types : \E lhs \in Values(T), rhs \in Values(T) :
          WrappingCall("wrapping_sub", T, lhs, rhs)

WrappingMul ==
    /\ pc = "idle"
    /\ \E T \in Types : \E lhs \in Values(T), rhs \in Values(T) :
          WrappingCall("wrapping_mul", T, lhs, rhs)

OverflowingCall(fn, T, lhs, rhs) ==
    LET r == CASE fn = "overflowing_add" -> overflowing_add(cfg.builtin, T, lhs, rhs)
               [] fn = "overflowing_sub" -> overflowing_sub(cfg.builtin, T, lhs, rhs)
               [] fn = "overflowing_mul" -> overflowing_mul(cfg.builtin, T, lhs, rhs)
    IN  IF T.signed
        THEN Finish(Call(fn, T, lhs, rhs, FALSE), r,
                    [value |-> r.value, overflowed |-> r.overflowed])
        ELSE Rejected(Call(fn, T, lhs, rhs, FALSE))

OverflowingAdd ==
    /\ pc = "idle"
    /\ \E T \in Types : \E lhs \in Values(T), rhs \in Values(T) :
          OverflowingCall("overflowing_add", T, lhs, rhs)

OverflowingSub ==
    /\ pc = "idle"
    /\ \E T \in Types : \E lhs \in Values(T), rhs \in Values(T) :
          OverflowingCall("overflowing_sub", T, lhs, rhs)

OverflowingMul ==
    /\ pc = "idle"
    /\ \E T \in Types : \E lhs \in Values(T), rhs \in Values(T) :
          OverflowingCall("overflowing_mul", T, lhs, rhs)

----------------------------------------------------------------------------
(* Policy-checked layer *)

\* the operands of a built-in operator are promoted, its exact result x
\* is computed in the promoted type and the return statement converts it
\* back to T
Raw(T, x) ==
    LET r == Arith(Promote(T), x)
    IN  [ub |-> r.ub, fail |-> FALSE, v |-> Cast(T, r.v)]

\* lhs / rhs: undefined for a zero divisor and for a quotient that the
\* promoted type cannot hold
RawDiv(T, lhs, rhs) ==
    IF rhs = 0
    THEN [ub |-> TRUE, fail |-> FALSE, v |-> 0]
    ELSE Raw(T, TruncDiv(lhs, rhs))

\* lhs % rhs: undefined wherever lhs / rhs is
RawMod(T, lhs, rhs) ==
    IF rhs = 0
    THEN [ub |-> TRUE, fail |-> FALSE, v |-> 0]
    ELSE [ub |-> Raw(T, TruncDiv(lhs, rhs)).ub, fail |-> FALSE,
          v |-> Cast(T, TruncMod(lhs, rhs))]

Wrapped(w) == [ub |-> w.ub, fail |-> FALSE, v |-> w.v]

Detected(o) == [ub |-> o.ub, fail |-> o.overflowed, v |-> o.value]

\* checked_add returning res.value without looking at res.overflowed
checked_add_unchecked(c, ce, T, lhs, rhs) ==
    IF ce THEN Raw(T, lhs + rhs)
    ELSE IF c.on_overflow = "ignore" THEN Raw(T, lhs + rhs)
    ELSE IF c.on_overflow = "wrap" THEN Wrapped(wrapping_add(T, lhs, rhs))
    ELSE Wrapped(wrapping_add(T, lhs, rhs))

checked_add(c, ce, T, lhs, rhs) ==
    IF ce THEN Raw(T, lhs + rhs)
    ELSE IF c.on_overflow = "ignore" THEN Raw(T, lhs + rhs)
    ELSE IF c.on_overflow = "wrap" THEN Wrapped(wrapping_add(T, lhs, rhs))
    ELSE Detected(overflowing_add(c.builtin, T, lhs, rhs))

\* checked_sub taking the fail branch under the wrap policy as well
checked_sub_nowrap(c, ce, T, lhs, rhs) ==
    IF ce THEN Raw(T, lhs - rhs)
    ELSE IF c.on_overflow = "ignore" THEN Raw(T, lhs - rhs)
    ELSE Detected(overflowing_sub(c.builtin, T, lhs, rhs))

checked_sub(c, ce, T, lhs, rhs) ==
    IF ce THEN Raw(T, lhs - rhs)
    ELSE IF c.on_overflow = "ignore" THEN Raw(T, lhs - rhs)
    ELSE IF c.on_overflow = "wrap" THEN Wrapped(wrapping_sub(T, lhs, rhs))
    ELSE Detected(overflowing_sub(c.builtin, T, lhs, rhs))

checked_mul(c, ce, T, lhs, rhs) ==
    IF ce THEN Raw(T, lhs * rhs)
    ELSE IF c.on_overflow = "ignore" THEN Raw(T, lhs * rhs)
    ELSE IF c.on_overflow = "wrap" THEN Wrapped(wrapping_mul(T, lhs, rhs))
    ELSE Detected(overflowing_mul(c.builtin, T, lhs, rhs))

checked_div(c, ce, T, lhs, rhs) ==
    IF ce THEN RawDiv(T, lhs, rhs)
    ELSE IF c.on_divide_by_zero = "ignore" THEN RawDiv(T, lhs, rhs)
    ELSE IF rhs = 0 THEN [ub |-> FALSE, fail |-> TRUE, v |-> 0]
    ELSE RawDiv(T, lhs, rhs)

checked_mod(c, ce, T, lhs, rhs) ==
    IF ce THEN RawMod(T, lhs, rhs)
    ELSE IF c.on_divide_by_zero = "ignore" THEN RawMod(T, lhs, rhs)
    ELSE IF rhs = 0 THEN [ub |-> FALSE, fail |-> TRUE, v |-> 0]
    ELSE RawMod(T, lhs, rhs)

\* Message with checked_sub's message pasted from checked_add
Message_pasted(fn) ==
    CASE fn = "checked_add" -> "signed overflow in addition"
      [] fn = "checked_sub" -> "signed overflow in addition"
      [] fn = "checked_mul" -> "signed overflow in multiplication"
      [] fn = "checked_div" -> "divide by zero"
      [] fn = "checked_mod" -> "divide by zero"

\* the message each operation passes to runtime_error
Message(fn) ==
    CASE fn = "checked_add" -> "signed overflow in addition"
      [] fn = "checked_sub" -> "signed overflow in subtraction"
      [] fn = "checked_mul" -> "signed overflow in multiplication"
      [] fn = "checked_div" -> "divide by zero"
      [] fn = "checked_mod" -> "divide by zero"

\* runtime_error(msg, loc): the failure hook is called and does not
\* return to the operation
runtime_error(msg, loc) ==
    /\ hook' = Append(hook, [msg |-> msg, loc |-> loc])
    /\ outcome' = "failed"
    /\ ret' = <<>>

\* undefined behaviour during constant evaluation: the call is not a
\* constant expression and the program does not compile
NotConstant(c) ==
    /\ call' = c
    /\ pc' = "done"
    /\ outcome' = "not_constant"
    /\ ret' = <<>>
    /\ ub' = FALSE
    /\ UNCHANGED <<cfg, hook, res, i>>

\* the end of a checked call that evaluated r and reports msg on failure
CompleteWith(c, r, msg) ==
    /\ call' = c
    /\ pc' = "done"
    /\ ub' = r.ub
    /\ \/ /\ r.ub
          /\ outcome' = "trapped"
          /\ ret' = <<>>
          /\ hook' = hook
       \/ /\ r.fail
          /\ runtime_error(msg, c.loc)
       \/ /\ ~r.fail
          /\ outcome' = "returned"
          /\ ret' = <<r.v>>
          /\ hook' = hook
    /\ UNCHANGED <<cfg, res, i>>

\* the end of a call of checked_add .. checked_mod that evaluated r
Complete(c, r) == CompleteWith(c, r, Message(c.fn))

CheckedCall(fn, T, lhs, rhs, ce, loc) ==
    LET c == CallAt(fn, T, lhs, rhs, ce, loc)
        r == CASE fn = "checked_add" -> checked_add(cfg, ce, T, lhs, rhs)
               [] fn = "checked_sub" -> checked_sub(cfg, ce, T, lhs, rhs)
               [] fn = "checked_mul" -> checked_mul(cfg, ce, T, lhs, rhs)
               [] fn = "checked_div" -> checked_div(cfg, ce, T, lhs, rhs)
               [] fn = "checked_mod" -> checked_mod(cfg, ce, T, lhs, rhs)
    IN  IF ~T.signed THEN Rejected(c)
        ELSE IF ce /\ r.ub THEN NotConstant(c)
        ELSE Complete(c, r)

CheckedAdd ==
    /\ pc = "idle"
    /\ \E T \in Types, ce \in BOOLEAN, loc \in Locs :
          \E lhs \in Values(T), rhs \in Values(T) :
             CheckedCall("checked_add", T, lhs, rhs, ce, loc)

CheckedSub ==
    /\ pc = "idle"
    /\ \E T \in Types, ce \in BOOLEAN, loc \in Locs :
          \E lhs \in Values(T), rhs \in Values(T) :
             CheckedCall("checked_sub", T, lhs, rhs, ce, loc)

CheckedMul ==
    /\ pc = "idle"
    /\ \E T \in Types, ce \in BOOLEAN, loc \in Locs :
          \E lhs \in Values(T), rhs \in Values(T) :
             CheckedCall("checked_mul", T, lhs, rhs, ce, loc)

CheckedDiv ==
    /\ pc = "idle"
    /\ \E T \in Types, ce \in BOOLEAN, loc \in Locs :
          \E lhs \in Values(T), rhs \in Values(T) :
             CheckedCall("checked_div", T, lhs, rhs, ce, loc)

CheckedMod ==
    /\ pc = "idle"
    /\ \E T \in Types, ce \in BOOLEAN, loc \in Locs :
          \E lhs \in Values(T), rhs \in Values(T) :
             CheckedCall("checked_mod", T, lhs, rhs, ce, loc)

\* checked_pow(base, exponent): T res{1}; U i{0}
CheckedPow ==
    /\ pc = "idle"
    /\ \E T \in Types, ce \in BOOLEAN, loc \in Locs :
          \E base \in Values(T), exponent \in Values(ExpT) :
             LET c == CallAt("checked_pow", T, base, exponent, ce, loc)
             IN  IF ~T.signed THEN Rejected(c)
                 ELSE /\ call' = c
                      /\ pc' = "pow_loop"
                      /\ outcome' = "running"
                      /\ res' = 1
                      /\ i' = 0
                      /\ UNCHANGED <<cfg, ret, ub, hook>>

\* a loop that runs once more, while n <= exponent
LoopCond_inclusive(n, exponent) == n <= exponent

\* the condition of the loop of checked_pow: i < exponent
LoopCond(n, exponent) == n < exponent

\* one evaluation of the loop condition i < exponent, and of the body
\* res = checked_mul(res, base, loc); i++ when it holds
PowStep ==
    /\ pc = "pow_loop"
    /\ IF LoopCond(i, call.rhs)
       THEN LET r == checked_mul(cfg, call.ce, call.T, res, call.lhs)
            IN  IF call.ce /\ r.ub
                THEN /\ pc' = "done"
                     /\ outcome' = "not_constant"
                     /\ UNCHANGED <<cfg, call, ret, ub, hook, res, i>>
                ELSE \/ /\ r.ub
                        /\ pc' = "done"
                        /\ outcome' = "trapped"
                        /\ ub' = TRUE
                        /\ UNCHANGED <<cfg, call, ret, hook, res, i>>
                     \/ /\ r.fail
                        /\ pc' = "done"
                        /\ runtime_error(Message("checked_mul"), call.loc)
                        /\ ub' = (ub \/ r.ub)
                        /\ UNCHANGED <<cfg, call, res, i>>
                     \/ /\ ~r.fail
                        /\ res' = r.v
                        /\ i' = Cast(ExpT, i + 1)
                        /\ ub' = (ub \/ r.ub)
                        /\ UNCHANGED <<cfg, pc, call, ret, outcome, hook>>
       ELSE /\ pc' = "done"
            /\ outcome' = "returned"
            /\ ret' = <<res>>
            /\ UNCHANGED <<cfg, call, ub, hook, res, i>>

----------------------------------------------------------------------------
(* Negation: flux::num::neg is called by the tests but defined outside     *)
(* this header; it follows the contract of the checked operations          *)

\* neg that never reports
neg_silent(c, ce, T, x) ==
    [ub |-> (ce \/ c.on_overflow = "ignore") /\ -x \notin Values(T),
     fail |-> FALSE, v |-> Cast(T, -x)]

\* neg(x): the raw negation during constant evaluation and under ignore
\* (undefined when -x is not a value of T), the wrapped one under wrap,
\* the overflow-detecting one under fail
neg(c, ce, T, x) ==
    IF ce \/ c.on_overflow = "ignore"
    THEN [ub |-> -x \notin Values(T), fail |-> FALSE, v |-> Cast(T, -x)]
    ELSE IF c.on_overflow = "wrap"
    THEN [ub |-> FALSE, fail |-> FALSE, v |-> Cast(T, -x)]
    ELSE [ub |-> FALSE, fail |-> -x \notin Values(T), v |-> Cast(T, -x)]

Neg ==
    /\ pc = "idle"
    /\ \E T \in SignedTypes, ce \in BOOLEAN, loc \in Locs : \E x \in Values(T) :
          LET c == [fn |-> "neg", T |-> T, lhs |-> x, ce |-> ce, loc |-> loc]
              r == neg(cfg, ce, T, x)
          IN  IF ce /\ r.ub THEN NotConstant(c)
              ELSE CompleteWith(c, r, "signed overflow in negation")

----------------------------------------------------------------------------
(* variadic_checked_mul *)

\* the largest number of factors of a call of variadic_checked_mul
MaxFactors == 3

\* the factors the calls are made with: the extremes of T and the small
\* values around zero
Factors(T) == {Lowest(T), -1, 0, 1, 2, Highest(T)} \cap Values(T)

\* the argument lists lhs, rhs, ts... : two or more factors of one type
\* (checked_mul takes both its operands of one type T)
FactorLists(T) == UNION {[1..n -> Factors(T)] : n \in 2..MaxFactors}

\* the call site of checked_mul inside variadic_checked_mul_impl, which is
\* what the defaulted loc of that call evaluates to
ImplSite == "numeric.hpp:180"

\* detail::variadic_checked_mul_impl(lhs, rhs, ts...): with two arguments
\* checked_mul(lhs, rhs); with more, the same function applied to
\* variadic_checked_mul_impl<T1, T2>(lhs, rhs) followed by ts... . A failure
\* reported by the inner call leaves the whole call.
RECURSIVE variadic_checked_mul_impl(_, _, _, _)
variadic_checked_mul_impl(c, ce, T, ts) ==
    LET r == checked_mul(c, ce, T, ts[1], ts[2])
    IN  IF Len(ts) = 2 \/ r.fail
        THEN r
        ELSE LET rest == variadic_checked_mul_impl(
                             c, ce, T, <<r.v>> \o SubSeq(ts, 3, Len(ts)))
             IN  [ub |-> r.ub \/ rest.ub, fail |-> rest.fail, v |-> rest.v]

\* variadic_checked_mul(lhs, rhs, ts...)
VariadicCheckedMul ==
    /\ pc = "idle"
    /\ \E T \in Types, ce \in BOOLEAN : \E ts \in FactorLists(T) :
          LET c == [fn |-> "variadic_checked_mul", T |-> T, ts |-> ts,
                    ce |-> ce, loc |-> ImplSite]
              r == variadic_checked_mul_impl(cfg, ce, T, ts)
          IN  IF ~T.signed THEN Rejected(c)
              ELSE IF ce /\ r.ub THEN NotConstant(c)
              ELSE CompleteWith(c, r, Message("checked_mul"))

Next ==
    \/ WrappingAdd
    \/ WrappingSub
    \/ WrappingMul
    \/ OverflowingAdd
    \/ OverflowingSub
    \/ OverflowingMul
    \/ CheckedAdd
    \/ CheckedSub
    \/ CheckedMul
    \/ CheckedDiv
    \/ CheckedMod
    \/ CheckedPow
    \/ PowStep
    \/ Neg
    \/ VariadicCheckedMul

Spec == Init /\ [][Next]_vars

\* the calls of checked_pow alone
PowNext ==
    \/ CheckedPow
    \/ PowStep

\* checked_pow is sequential code: once entered, its loop keeps being
\* executed until it leaves
PowSpec == Init /\ [][PowNext]_vars /\ WF_vars(PowStep)

----------------------------------------------------------------------------
(* What the claims speak about *)

\* a finished call of fn with operands of a signed type
Done(fn) == pc = "done" /\ call.fn = fn /\ call.T.signed

\* a finished call under ordinary execution (not constant evaluation)
AtRuntime(fn) == Done(fn) /\ ~call.ce

InRange(T, x) == x \in Values(T)

\* x and y are congruent modulo 2^bitwidth(T)
Congruent(T, x, y) == (x - y) % (2 ^ T.bits) = 0

\* the call returned v to its caller and nothing undefined was evaluated
Returned(v) == outcome = "returned" /\ ret = <<v>> /\ ~ub

\* the call reported its failure to the hook, once, and returned nothing
Failed(msg) ==
    /\ outcome = "failed"
    /\ ret = <<>>
    /\ hook = <<[msg |-> msg, loc |-> call.loc]>>
    /\ ~ub

----------------------------------------------------------------------------
(* C1 *)

\* C1: for every signed type T and all a, b, overflowing_add(a, b) is
\* defined, its flag is set iff the unbounded sum a + b lies outside
\* [min(T), max(T)], and its value equals wrapping_add(a, b); on the builtin
\* path and on the sign-comparison fallback alike.
C1_OverflowingAdd ==
    Done("overflowing_add") =>
        /\ outcome = "returned"
        /\ ~ub
        /\ ret[1].overflowed = ~InRange(call.T, call.lhs + call.rhs)
        /\ ~wrapping_add(call.T, call.lhs, call.rhs).ub
        /\ ret[1].value = wrapping_add(call.T, call.lhs, call.rhs).v

\* the fallback flags min(int) + (-1), whose wrapped value is max(int)
C1_Witness ==
    /\ Done("overflowing_add")
    /\ ~cfg.builtin
    /\ call.T = IntT
    /\ call.lhs = Lowest(IntT)
    /\ call.rhs = -1
    /\ ret = <<[value |-> Highest(IntT), overflowed |-> TRUE]>>

----------------------------------------------------------------------------
(* C3 *)

\* C3: for every signed type T and all a, b, overflowing_sub(a, b) is
\* defined, its flag is set iff the unbounded difference a - b lies outside
\* [min(T), max(T)], and its value equals wrapping_sub(a, b); on the builtin
\* path and on the sign-test fallback alike.
C3_OverflowingSub ==
    Done("overflowing_sub") =>
        /\ outcome = "returned"
        /\ ~ub
        /\ ret[1].overflowed = ~InRange(call.T, call.lhs - call.rhs)
        /\ ~wrapping_sub(call.T, call.lhs, call.rhs).ub
        /\ ret[1].value = wrapping_sub(call.T, call.lhs, call.rhs).v

\* the fallback flags 0 - min(int), whose wrapped value is min(int)
C3_Witness ==
    /\ Done("overflowing_sub")
    /\ ~cfg.builtin
    /\ call.T = IntT
    /\ call.lhs = 0
    /\ call.rhs = Lowest(IntT)
    /\ ret = <<[value |-> Lowest(IntT), overflowed |-> TRUE]>>

----------------------------------------------------------------------------
(* C2 *)

\* C2: for every signed type T and all a, b, overflowing_mul(a, b) is
\* defined (the fallback's division value / lhs is never out of range), its
\* flag is set iff the unbounded product a * b lies outside [min(T), max(T)]
\* (so for (min(T), -1) and (-1, min(T))), and its value is the product
\* reduced modulo 2^bitwidth.
C2_OverflowingMul ==
    Done("overflowing_mul") =>
        /\ outcome = "returned"
        /\ ~ub
        /\ ret[1].overflowed = ~InRange(call.T, call.lhs * call.rhs)
        /\ InRange(call.T, ret[1].value)
        /\ Congruent(call.T, ret[1].value, call.lhs * call.rhs)

----------------------------------------------------------------------------
(* C4 *)

Exact(fn, lhs, rhs) ==
    CASE fn \in {"wrapping_add", "checked_add"} -> lhs + rhs
      [] fn \in {"wrapping_sub", "checked_sub"} -> lhs - rhs
      [] fn \in {"wrapping_mul", "checked_mul"} -> lhs * rhs

\* C4: for every signed type T and all a, b, wrapping_add(a, b),
\* wrapping_sub(a, b) and wrapping_mul(a, b) return the value of
\* [min(T), max(T)] congruent to the exact result modulo 2^bitwidth(T), with
\* no other outcome for any input.
C4_Wrapping ==
    \A fn \in {"wrapping_add", "wrapping_sub", "wrapping_mul"} :
        Done(fn) =>
            /\ outcome = "returned"
            /\ ~ub
            /\ InRange(call.T, ret[1])
            /\ Congruent(call.T, ret[1], Exact(fn, call.lhs, call.rhs))

----------------------------------------------------------------------------
(* C5 *)

\* C5: under the fail overflow policy at runtime, checked_add(a, b) reports
\* an overflow failure exactly when a + b is outside [min(T), max(T)], and
\* for every other input returns overflowing_add(a, b).value, which is the
\* exact sum.
C5_CheckedAddFail ==
    (AtRuntime("checked_add") /\ cfg.on_overflow = "fail") =>
        IF ~InRange(call.T, call.lhs + call.rhs)
        THEN Failed("signed overflow in addition")
        ELSE /\ Returned(call.lhs + call.rhs)
             /\ ret[1] = overflowing_add(cfg.builtin, call.T, call.lhs, call.rhs).value

\* add(max, 1) has reported the overflow
C5_Witness ==
    /\ AtRuntime("checked_add")
    /\ cfg.on_overflow = "fail"
    /\ call.lhs = Highest(call.T)
    /\ call.rhs = 1
    /\ outcome = "failed"
    /\ hook = <<[msg |-> "signed overflow in addition", loc |-> call.loc]>>

----------------------------------------------------------------------------
(* C6 *)

WrappingOf(fn, T, lhs, rhs) ==
    CASE fn = "checked_add" -> wrapping_add(T, lhs, rhs)
      [] fn = "checked_sub" -> wrapping_sub(T, lhs, rhs)
      [] fn = "checked_mul" -> wrapping_mul(T, lhs, rhs)

\* C6: under the wrap overflow policy at runtime, checked_add, checked_sub
\* and checked_mul behave as wrapping_add, wrapping_sub and wrapping_mul on
\* the same operands (what is returned is the wrapping operation's value,
\* and nothing is evaluated that the wrapping operation does not evaluate),
\* and the failure hook is never invoked.
C6_WrapPolicy ==
    \A fn \in {"checked_add", "checked_sub", "checked_mul"} :
        (AtRuntime(fn) /\ cfg.on_overflow = "wrap") =>
            LET w == WrappingOf(fn, call.T, call.lhs, call.rhs)
            IN  /\ hook = <<>>
                /\ outcome # "failed"
                /\ ub = w.ub
                /\ \/ outcome = "returned" /\ ret = <<w.v>>
                   \/ outcome = "trapped" /\ w.ub

\* sub(min, 1) has wrapped to max without a report
C6_Witness ==
    /\ AtRuntime("checked_sub")
    /\ cfg.on_overflow = "wrap"
    /\ call.lhs = Lowest(call.T)
    /\ call.rhs = 1
    /\ outcome = "returned"
    /\ ret = <<Highest(call.T)>>
    /\ hook = <<>>

----------------------------------------------------------------------------
(* C7 *)

\* C7: under the fail policy at runtime, checked_mul(a, b) reports an
\* overflow failure exactly when the unbounded product a * b is outside
\* [min(T), max(T)] (so for (max, max), (min, -1) and (-1, min)), and
\* otherwise returns the product (so a for (a, 1) and 0 for (a, 0)).
C7_CheckedMulFail ==
    (AtRuntime("checked_mul") /\ cfg.on_overflow = "fail") =>
        IF ~InRange(call.T, call.lhs * call.rhs)
        THEN Failed("signed overflow in multiplication")
        ELSE Returned(call.lhs * call.rhs)

----------------------------------------------------------------------------
(* C8 *)

\* a finished runtime call of checked_sub under the fail policy, with
\* operands of any integral type
SubFail == pc = "done" /\ call.fn = "checked_sub" /\ ~call.ce /\ cfg.on_overflow = "fail"

SubOverflow == Failed("signed overflow in subtraction")

\* the signed half of C8
C8_Signed ==
    (SubFail /\ call.T.signed) =>
        LET min == Lowest(call.T)
            max == Highest(call.T)
        IN  /\ (call.lhs = max /\ call.rhs = min) => SubOverflow
            /\ (call.lhs = call.rhs) => Returned(0)
            /\ (call.rhs = 0) => Returned(call.lhs)
            /\ (call.lhs = min /\ call.rhs = 1) => SubOverflow
            /\ (call.lhs = min /\ call.rhs = max) => SubOverflow
            /\ (call.lhs = max /\ call.rhs = -1) => SubOverflow
            /\ (call.lhs = -1 /\ call.rhs = min) => Returned(max)
            /\ (call.lhs = -1 /\ call.rhs = max) => Returned(min)

\* the unsigned half of C8
C8_Unsigned ==
    (SubFail /\ ~call.T.signed) =>
        LET min == Lowest(call.T)
            max == Highest(call.T)
        IN  /\ (call.lhs = max /\ call.rhs = min) => Returned(max)
            /\ (call.lhs = call.rhs) => Returned(0)
            /\ (call.rhs = 0) => Returned(call.lhs)
            /\ (call.lhs = min /\ call.rhs = 1) => SubOverflow
            /\ (call.lhs = min /\ call.rhs = max) => SubOverflow

\* C8: under the fail policy, checked_sub(max(T), min(T)) fails for signed T
\* and returns max(T) for unsigned T; sub(x, x) == 0 and sub(x, 0) == x
\* never fail; sub(min, 1), sub(min, max) and, signed, sub(max, -1) fail;
\* sub(-1, min) == max and sub(-1, max) == min.
C8_CheckedSub == C8_Signed /\ C8_Unsigned

----------------------------------------------------------------------------
(* C9 *)

RECURSIVE Power(_, _)
Power(base, exponent) ==
    IF exponent = 0 THEN 1 ELSE base * Power(base, exponent - 1)

\* some intermediate product base^k, 1 <= k <= exponent, is out of range
PowerOverflows(T, base, exponent) ==
    \E k \in 1 .. exponent : ~InRange(T, Power(base, k))

\* C9: at runtime checked_pow(base, 0) returns 1 for every base and never
\* fails; for exponent > 0 it fails exactly when an intermediate
\* checked_mul(res, base) fails under the active overflow policy (under
\* fail: when an intermediate product is out of range; under wrap and
\* ignore: never) and otherwise returns base^exponent (reduced modulo
\* 2^bitwidth under wrap).
C9_CheckedPow ==
    AtRuntime("checked_pow") =>
        LET T == call.T
            base == call.lhs
            exponent == call.rhs
        IN  /\ exponent = 0 => Returned(1) /\ hook = <<>>
            /\ cfg.on_overflow = "fail" =>
                  IF PowerOverflows(T, base, exponent)
                  THEN Failed("signed overflow in multiplication")
                  ELSE Returned(Power(base, exponent)) /\ hook = <<>>
            /\ cfg.on_overflow = "wrap" =>
                  Returned(Cast(T, Power(base, exponent))) /\ hook = <<>>
            /\ cfg.on_overflow = "ignore" =>
                  /\ hook = <<>>
                  /\ ~PowerOverflows(T, base, exponent) =>
                        Returned(Power(base, exponent))

----------------------------------------------------------------------------
(* C10 *)

\* C10: under the fail divide-by-zero policy at runtime, checked_div(a, 0)
\* reports a failure for every a, and for a non-zero divisor checked_div
\* returns the truncating quotient (so a for (a, 1)) without failing.
C10_CheckedDivFail ==
    (AtRuntime("checked_div") /\ cfg.on_divide_by_zero = "fail") =>
        IF call.rhs = 0
        THEN Failed("divide by zero")
        ELSE Returned(TruncDiv(call.lhs, call.rhs))

----------------------------------------------------------------------------
(* C11 *)

\* C11: under the fail divide-by-zero policy at runtime, checked_mod(a, 0)
\* reports a failure for every a, and for a non-zero divisor checked_mod
\* returns the truncating remainder, whose sign follows the dividend (so 0
\* for (a, 1), -1 for (-3, 2), x for (x, max) with 0 <= x < max).
C11_CheckedModFail ==
    (AtRuntime("checked_mod") /\ cfg.on_divide_by_zero = "fail") =>
        IF call.rhs = 0
        THEN Failed("divide by zero")
        ELSE Returned(TruncMod(call.lhs, call.rhs))

----------------------------------------------------------------------------
(* C12 *)

\* a build with the default policies
DefaultPolicies == cfg.on_overflow = "fail" /\ cfg.on_divide_by_zero = "fail"

\* C12: for every signed type T, at runtime under the default policies,
\* div(min(T), -1) and mod(min(T), -1) report an unrecoverable error and
\* return no value, while div(max(T), -1) returns min(T) + 1.
C12_MinByMinusOne ==
    /\ \A fn \in {"checked_div", "checked_mod"} :
          (AtRuntime(fn) /\ DefaultPolicies
             /\ call.lhs = Lowest(call.T) /\ call.rhs = -1) =>
                outcome = "failed" /\ ret = <<>> /\ Len(hook) = 1
    /\ (AtRuntime("checked_div") /\ DefaultPolicies
          /\ call.lhs = Highest(call.T) /\ call.rhs = -1) =>
             Returned(Lowest(call.T) + 1)

----------------------------------------------------------------------------
(* C14 *)

CheckedFns ==
    {"checked_add", "checked_sub", "checked_mul", "checked_pow",
     "checked_div", "checked_mod"}

\* the message the claim names for each operation
C14_Message(fn) ==
    CASE fn = "checked_add" -> "signed overflow in addition"
      [] fn = "checked_sub" -> "signed overflow in subtraction"
      [] fn \in {"checked_mul", "checked_pow"} -> "signed overflow in multiplication"
      [] fn \in {"checked_div", "checked_mod"} -> "divide by zero"

\* C14: whenever checked_add, checked_sub, checked_mul, checked_pow,
\* checked_div or checked_mod reports a failure, the failure hook has been
\* invoked exactly once, with the message of the operation kind and the
\* call site of the operation's caller (checked_pow forwards its own); as
\* long as the operation has not failed the hook has not been invoked.
C14_HookOnce ==
    (call.fn \in CheckedFns /\ call.T.signed) =>
        IF outcome = "failed"
        THEN hook = <<[msg |-> C14_Message(call.fn), loc |-> call.loc]>>
        ELSE hook = <<>>

\* checked_pow called from site_b has failed in its second multiplication
C14_Witness ==
    /\ AtRuntime("checked_pow")
    /\ call.loc = "site_b"
    /\ outcome = "failed"
    /\ i = 1
    /\ hook = <<[msg |-> "signed overflow in multiplication", loc |-> "site_b"]>>

----------------------------------------------------------------------------
(* C13 *)

\* what the runtime path of fn evaluates on a build like cfg with
\* config::on_overflow == overflow_policy::fail
RuntimeFailPath(fn, T, lhs, rhs) ==
    LET c == [cfg EXCEPT !.on_overflow = "fail"]
    IN  CASE fn = "checked_add" -> checked_add(c, FALSE, T, lhs, rhs)
          [] fn = "checked_sub" -> checked_sub(c, FALSE, T, lhs, rhs)
          [] fn = "checked_mul" -> checked_mul(c, FALSE, T, lhs, rhs)

\* C13: for checked_add, checked_sub and checked_mul, whatever the
\* configured policy, a call during constant evaluation is rejected exactly
\* when the exact result is out of range, which is exactly when the runtime
\* fail-policy path invokes the failure hook on the same operands; every
\* other call during constant evaluation yields its value.
C13_ConstVsRuntime ==
    \A fn \in {"checked_add", "checked_sub", "checked_mul"} :
        (Done(fn) /\ call.ce) =>
            LET r == RuntimeFailPath(fn, call.T, call.lhs, call.rhs)
                rejected == outcome = "not_constant"
            IN  /\ rejected = ~InRange(call.T, Exact(fn, call.lhs, call.rhs))
                /\ rejected = (r.fail /\ ~r.ub)
                /\ ~rejected => Returned(Exact(fn, call.lhs, call.rhs))
                /\ hook = <<>>

----------------------------------------------------------------------------
(* C15 *)

\* the exact mathematical result of a checked operation
ExactResult(fn, lhs, rhs) ==
    CASE fn \in {"checked_add", "checked_sub", "checked_mul"} -> Exact(fn, lhs, rhs)
      [] fn = "checked_pow" -> Power(lhs, rhs)
      [] fn = "checked_div" -> TruncDiv(lhs, rhs)
      [] fn = "checked_mod" -> TruncMod(lhs, rhs)

\* C15: under the fail policies at runtime, a checked operation that
\* reported a failure has stopped (checked_pow multiplies no further) and
\* returned no value, and every value a checked operation returns is the
\* exact mathematical result.
C15_NoPartialResult ==
    (call.fn \in CheckedFns /\ call.T.signed /\ ~call.ce /\ DefaultPolicies) =>
        /\ outcome = "failed" => pc = "done" /\ ret = <<>>
        /\ outcome = "returned" =>
              ret = <<ExactResult(call.fn, call.lhs, call.rhs)>>

----------------------------------------------------------------------------
(* C16 *)

\* C16: for every signed type T, neg(x) is rejected in constant evaluation,
\* and reports a failure at runtime under the fail policy, exactly when x is
\* min(T); for every other x it returns -x (so 0 for 0, -1 for 1, 1 for -1,
\* min + 1 for max).
C16_Neg ==
    Done("neg") =>
        /\ call.ce =>
              IF call.lhs = Lowest(call.T)
              THEN outcome = "not_constant" /\ ret = <<>>
              ELSE Returned(-call.lhs)
        /\ (~call.ce /\ cfg.on_overflow = "fail") =>
              IF call.lhs = Lowest(call.T)
              THEN outcome = "failed" /\ ret = <<>> /\ Len(hook) = 1
              ELSE Returned(-call.lhs) /\ hook = <<>>

\* neg(min(int)) has reported the overflow
C16_Witness ==
    /\ AtRuntime("neg")
    /\ cfg.on_overflow = "fail"
    /\ call.T = IntT
    /\ call.lhs = Lowest(IntT)
    /\ outcome = "failed"
    /\ Len(hook) = 1

----------------------------------------------------------------------------
(* C17 *)

OverflowingFns == {"overflowing_add", "overflowing_sub", "overflowing_mul"}

\* the (value, overflowed) pair of the native overflow-checking path
BuiltinPair(fn, T, lhs, rhs) ==
    LET r == CASE fn = "overflowing_add" -> overflowing_add(TRUE, T, lhs, rhs)
               [] fn = "overflowing_sub" -> overflowing_sub(TRUE, T, lhs, rhs)
               [] fn = "overflowing_mul" -> overflowing_mul(TRUE, T, lhs, rhs)
    IN  [value |-> r.value, overflowed |-> r.overflowed]

\* C17: for every signed type T and all a, b, the sign-analysis fallback of
\* overflowing_add, overflowing_sub and overflowing_mul is defined and
\* returns the same (value, overflowed) pair as the native
\* overflow-checking builtin path.
C17_PathsAgree ==
    (pc = "done" /\ call.fn \in OverflowingFns /\ call.T.signed
        /\ ~cfg.builtin) =>
        /\ outcome = "returned"
        /\ ~ub
        /\ ret[1] = BuiltinPair(call.fn, call.T, call.lhs, call.rhs)

----------------------------------------------------------------------------
(* C18 *)

\* the counter i is the number of multiplications of checked_pow that
\* have succeeded: it starts from res = 1, never passes the exponent, has
\* reached it when the call returns, and is short of it when a
\* multiplication stopped the call
PowCount ==
    /\ i <= call.rhs
    /\ i = 0 => res = 1
    /\ (pc = "done" /\ outcome = "returned") => i = call.rhs
    /\ (pc = "done" /\ outcome # "returned") => i < call.rhs

\* C18: checked_pow(base, exponent) always terminates; starting from
\* res = 1 it applies checked_mul(res, base) exactly exponent times when no
\* multiplication fails (the counter runs 0 .. exponent - 1 and never wraps,
\* even for exponent = max(U)), and stops at the first failing
\* multiplication otherwise.
C18_PowTerminates ==
    /\ []((call.fn = "checked_pow" /\ call.T.signed) => PowCount)
    /\ (pc = "pow_loop" ~> pc = "done")

\* checked_pow<int>(-1, max(U)) has returned after max(U) multiplications
C18_Witness ==
    /\ AtRuntime("checked_pow")
    /\ call.T = IntT
    /\ call.lhs = -1
    /\ call.rhs = Highest(ExpT)
    /\ i = Highest(ExpT)
    /\ Returned(-1)

----------------------------------------------------------------------------
(* C19 *)

\* the unbounded product x1 * ... * xk of the first k factors
RECURSIVE PrefixProduct(_, _)
PrefixProduct(ts, k) == IF k = 0 THEN 1 ELSE PrefixProduct(ts, k - 1) * ts[k]

\* some prefix product x1 * ... * xk, 2 <= k <= n, is not a value of T
PrefixOverflows(T, ts) ==
    \E k \in 2..Len(ts) : ~InRange(T, PrefixProduct(ts, k))

\* C19: under the fail policy variadic_checked_mul(x1, ..., xn) fails,
\* reporting once, iff some prefix product x1 * ... * xk (2 <= k <= n) is
\* outside [min(T), max(T)], also when the full product is representable;
\* otherwise it returns the exact product.
C19_LeftFold ==
    (AtRuntime("variadic_checked_mul") /\ cfg.on_overflow = "fail") =>
        IF PrefixOverflows(call.T, call.ts)
        THEN outcome = "failed" /\ ret = <<>> /\ ~ub /\ Len(hook) = 1
        ELSE Returned(PrefixProduct(call.ts, Len(call.ts))) /\ hook = <<>>

====
